---- MODULE Spec2Model ----
(***************************************************************************)
(* Model of server.py: one POST request travelling through                 *)
(* SnapchatFormatterHandler.do_POST / _handle_process and process_image.   *)
(* Rasters are modelled by their size and colour mode; the arithmetic of   *)
(* the crop rectangle is modelled exactly on integers.                     *)
(***************************************************************************)
EXTENDS Integers, Sequences, FiniteSets, TLC

(* ---------------- bounds of the enumerated inputs ---------------- *)
MaxWidth == 18
MaxHeight == 32
MaxFileSize == 2

(* ---------------- configuration (server.py:37-39) ---------------- *)
TARGET_WIDTH == 1080
TARGET_HEIGHT == 1920
\* TARGET_RATIO = 9 / 16 is kept as the exact fraction RatioNum / RatioDen
RatioNum == 9
RatioDen == 16

(* ---------------- input domains ---------------- *)
\* (width, height) of decoded rasters: a small grid plus the two sizes the
\* documentation works through
Sizes ==
    ((1..MaxWidth) \X (1..MaxHeight)) \cup {<<4000, 3000>>, <<1000, 2000>>}

SmallSizes == {<<1, 1>>, <<2, 1>>, <<1, 2>>, <<9, 16>>, <<3, 2>>}

ColorModes == {"RGB", "RGBA", "P", "LA", "L"}

\* exceptions the orientation read can end with
ExifErrors == {"AttributeError", "KeyError", "IndexError", "SyntaxError", "struct.error"}

\* outcome of img._getexif(): it raises, returns None, or returns a dict in
\* which the orientation tag is absent (0) or has a value
ExifOutcomes ==
    [kind : {"raise"}, exc : ExifErrors, orientation : {0}]
    \cup [kind : {"none"}, exc : {"-"}, orientation : {0}]
    \cup [kind : {"dict"}, exc : {"-"}, orientation : {0, 1, 3, 6, 8}]

NoExif == [kind |-> "none", exc |-> "-", orientation |-> 0]

Undecodable ==
    [decodable |-> FALSE, width |-> 0, height |-> 0, mode |-> "-", exif |-> NoExif]

Files ==
    {[decodable |-> TRUE, width |-> s[1], height |-> s[2], mode |-> "RGB", exif |-> e] :
        s \in Sizes, e \in ExifOutcomes}
    \cup {[decodable |-> TRUE, width |-> s[1], height |-> s[2], mode |-> m, exif |-> NoExif] :
        s \in SmallSizes, m \in ColorModes}
    \cup {Undecodable}

SmallFiles ==
    {[decodable |-> TRUE, width |-> s[1], height |-> s[2], mode |-> "RGB", exif |-> NoExif] :
        s \in SmallSizes}
    \cup {Undecodable}

Absent == "<absent>"
ModeFields == {Absent, "", "center", "top", "bottom", "left", " top "}

\* path, Content-Type, whether the body parses (boundary / JSON syntax),
\* whether a non-empty image part is present, the mode field, the upload
Requests ==
    {[path |-> "/api/process", ctype |-> "application/json", bodyOk |-> TRUE,
      hasImage |-> TRUE, modeField |-> m, file |-> f] :
        m \in {Absent, "center", "top", "bottom", "left"}, f \in Files}
    \cup [path : {"/api/process", "/other"},
          ctype : {"multipart/form-data", "application/json", "text/plain"},
          bodyOk : BOOLEAN, hasImage : BOOLEAN,
          modeField : ModeFields, file : SmallFiles]

(* ---------------- state ---------------- *)
VARIABLES
    pc,          \* position of the handler
    req,         \* the request being served
    image_data,  \* the upload extracted by _handle_process
    crop_mode,   \* the crop_mode argument of process_image
    img,         \* the raster held by process_image
    orig,        \* orig_width, orig_height
    crop,        \* crop_x, crop_y, crop_width, crop_height
    result,      \* size of the resampled raster
    info,        \* the metadata dictionary
    exc,         \* exception travelling to the except clause of _handle_process
    responses    \* responses written to the client, in order

vars == <<pc, req, image_data, crop_mode, img, orig, crop, result, info, exc, responses>>

NoImg == [width |-> 0, height |-> 0, mode |-> "-"]
NoSize == [width |-> 0, height |-> 0]
NoCrop == [x |-> 0, y |-> 0, width |-> 0, height |-> 0, set |-> FALSE]
NoInfo ==
    [original_width |-> 0, original_height |-> 0, crop_mode |-> "-",
     result_width |-> 0, result_height |-> 0, file_size |-> 0]
NoExc == "-"


(* ---------------- request parsing (_handle_process) ---------------- *)
\* bytes.strip() on the mode values that are enumerated
Strip(s) == IF s = " top " THEN "top" ELSE s

\* crop_mode after the multipart loop: the default "center" unless the mode
\* part carries a non-empty value (data_end > data_start)
MultipartMode(field) ==
    IF field = Absent \/ field = "" THEN "center" ELSE Strip(field)

\* data.get('mode', 'center')
JsonMode(field) == IF field = Absent THEN "center" ELSE field

ErrorResponse_Status200(message, status) ==
    [json |-> TRUE, status |-> 200, success |-> FALSE, error |-> message,
     image |-> FALSE, info |-> NoInfo]

\* _send_json_error: {"success": False, "error": message} with the status
ErrorResponse(message, status) ==
    [json |-> TRUE, status |-> status, success |-> FALSE, error |-> message,
     image |-> FALSE, info |-> NoInfo]

\* the response dictionary of a successful call, sent with status 200
SuccessResponse(i) ==
    [json |-> TRUE, status |-> 200, success |-> TRUE, error |-> "-",
     image |-> TRUE, info |-> i]

\* send_error(404, ...) of the base handler: an HTML error page
NotFoundResponse ==
    [json |-> FALSE, status |-> 404, success |-> FALSE, error |-> "Endpoint nicht gefunden",
     image |-> FALSE, info |-> NoInfo]

(* ---------------- orientation (process_image, try block) ---------------- *)
\* exceptions named by the except clause
CaughtExifErrors == {"AttributeError", "KeyError", "IndexError"}

RotatedSize_NoExpand(size, orientation) == size

\* img.rotate(angle, expand=True): 270 and 90 degrees exchange width and
\* height, 180 degrees and no rotation keep them
RotatedSize(size, orientation) ==
    IF orientation \in {6, 8}
    THEN [width |-> size.height, height |-> size.width]
    ELSE size

(* ---------------- crop rectangle (process_image) ---------------- *)
\* img_ratio > TARGET_RATIO, with img_ratio = orig_width / orig_height
\* (9/16 is exact in binary floating point and the division is correctly
\* rounded, so the comparison and both int() truncations agree with the
\* integer arithmetic for every height below 2^50)
IsWider(w, h) == w * RatioDen > h * RatioNum

\* int(orig_height * TARGET_RATIO)
WideCropWidth(h) == (h * RatioNum) \div RatioDen

TallCropHeight_Inverted(w) == (w * RatioNum) \div RatioDen

TallCropHeight_RoundUp(w) == ((w * RatioDen) \div RatioNum) + 1

\* int(orig_width / TARGET_RATIO)
TallCropHeight(w) == (w * RatioDen) \div RatioNum

CropX_NotHalved(w, cw) == w - cw

CropX_Precedence(w, cw) == w - (cw \div 2)

\* (orig_width - crop_width) // 2
CropX(w, cw) == (w - cw) \div 2

CropY_Swapped(h, ch, mode) ==
    IF mode = "top" THEN h - ch
    ELSE IF mode = "bottom" THEN 0
    ELSE (h - ch) \div 2

\* the if / elif / else on crop_mode
CropY(h, ch, mode) ==
    IF mode = "top" THEN 0
    ELSE IF mode = "bottom" THEN h - ch
    ELSE (h - ch) \div 2

CropRect(w, h, mode) ==
    IF IsWider(w, h)
    THEN [x |-> CropX(w, WideCropWidth(h)), y |-> 0,
          width |-> WideCropWidth(h), height |-> h, set |-> TRUE]
    ELSE [x |-> 0, y |-> CropY(h, TallCropHeight(w), mode),
          width |-> w, height |-> TallCropHeight(w), set |-> TRUE]

\* the "crop_mode" entry of the info dictionary
InfoCropMode(mode) == mode

(* ---------------- initial state ---------------- *)
Init ==
    /\ req \in Requests
    /\ pc = "do_POST"
    /\ image_data = Undecodable
    /\ crop_mode = "center"
    /\ img = NoImg
    /\ orig = NoSize
    /\ crop = NoCrop
    /\ result = NoSize
    /\ info = NoInfo
    /\ exc = NoExc
    /\ responses = <<>>

Raise(e) ==
    /\ exc' = e
    /\ pc' = "except"

Send(r) ==
    /\ responses' = Append(responses, r)
    /\ pc' = "done"

(* ---------------- do_POST ---------------- *)
RouteProcess ==
    /\ pc = "do_POST"
    /\ req.path = "/api/process"
    /\ pc' = "parse"
    /\ UNCHANGED <<req, image_data, crop_mode, img, orig, crop, result, info, exc, responses>>

RouteNotFound ==
    /\ pc = "do_POST"
    /\ req.path # "/api/process"
    /\ Send(NotFoundResponse)
    /\ UNCHANGED <<req, image_data, crop_mode, img, orig, crop, result, info, exc>>

(* ---------------- _handle_process: reading the body ---------------- *)
\* multipart/form-data; a Content-Type without "boundary=" raises IndexError
ParseMultipart ==
    /\ pc = "parse"
    /\ req.ctype = "multipart/form-data"
    /\ IF ~req.bodyOk
       THEN /\ Raise("IndexError")
            /\ UNCHANGED <<image_data, crop_mode, responses>>
       ELSE IF ~req.hasImage
       THEN /\ Send(ErrorResponse("Kein Bild gefunden", 400))
            /\ crop_mode' = MultipartMode(req.modeField)
            /\ UNCHANGED <<image_data, exc>>
       ELSE /\ image_data' = req.file
            /\ crop_mode' = MultipartMode(req.modeField)
            /\ pc' = "open"
            /\ UNCHANGED <<exc, responses>>
    /\ UNCHANGED <<req, img, orig, crop, result, info>>

\* application/json; a body that is not JSON raises; a missing image entry
\* decodes to zero bytes
ParseJson ==
    /\ pc = "parse"
    /\ req.ctype = "application/json"
    /\ IF ~req.bodyOk
       THEN /\ Raise("JSONDecodeError")
            /\ UNCHANGED <<image_data, crop_mode>>
       ELSE /\ image_data' = IF req.hasImage THEN req.file ELSE Undecodable
            /\ crop_mode' = JsonMode(req.modeField)
            /\ pc' = "open"
            /\ UNCHANGED exc
    /\ UNCHANGED <<req, img, orig, crop, result, info, responses>>

InvalidContentType ==
    /\ pc = "parse"
    /\ req.ctype \notin {"multipart/form-data", "application/json"}
    /\ Send(ErrorResponse("Ungueltiger Content-Type", 400))
    /\ UNCHANGED <<req, image_data, crop_mode, img, orig, crop, result, info, exc>>

(* ---------------- process_image ---------------- *)
\* Image.open: bytes that are no image raise UnidentifiedImageError
OpenImage ==
    /\ pc = "open"
    /\ IF image_data.decodable
       THEN /\ img' = [width |-> image_data.width, height |-> image_data.height,
                       mode |-> image_data.mode]
            /\ pc' = "exif"
            /\ UNCHANGED exc
       ELSE /\ Raise("UnidentifiedImageError")
            /\ UNCHANGED img
    /\ UNCHANGED <<req, image_data, crop_mode, orig, crop, result, info, responses>>

\* the try block around img._getexif(): the listed exceptions are passed
\* over, any other leaves process_image; tags 3, 6 and 8 rotate
ExifRotation ==
    /\ pc = "exif"
    /\ LET e == image_data.exif IN
       IF e.kind = "raise" /\ e.exc \notin CaughtExifErrors
       THEN /\ Raise(e.exc)
            /\ UNCHANGED img
       ELSE /\ img' = IF e.kind = "dict"
                      THEN [width |-> RotatedSize(img, e.orientation).width,
                            height |-> RotatedSize(img, e.orientation).height,
                            mode |-> img.mode]
                      ELSE img
            /\ pc' = "rgb"
            /\ UNCHANGED exc
    /\ UNCHANGED <<req, image_data, crop_mode, orig, crop, result, info, responses>>

\* RGBA, P and LA are pasted on a white RGB background of the same size,
\* every other mode is converted; the size does not change
ConvertRGB ==
    /\ pc = "rgb"
    /\ img' = [img EXCEPT !.mode = "RGB"]
    /\ pc' = "crop"
    /\ UNCHANGED <<req, image_data, crop_mode, orig, crop, result, info, exc, responses>>

\* orig_width, orig_height = img.size and the crop rectangle
ComputeCrop ==
    /\ pc = "crop"
    /\ orig' = [width |-> img.width, height |-> img.height]
    /\ crop' = CropRect(img.width, img.height, crop_mode)
    /\ pc' = "resize"
    /\ UNCHANGED <<req, image_data, crop_mode, img, result, info, exc, responses>>

\* what the resampler does with a box of the given size: a box without
\* pixels is outside its contract, it may be rejected or resampled
ResizeOutcomes(cw, ch) ==
    IF cw >= 1 /\ ch >= 1 THEN {"ok"} ELSE {"ok", "ValueError"}

\* img.crop(...) and cropped.resize((TARGET_WIDTH, TARGET_HEIGHT), LANCZOS)
CropResize ==
    /\ pc = "resize"
    /\ \E o \in ResizeOutcomes(crop.width, crop.height) :
          IF o = "ok"
          THEN /\ result' = [width |-> TARGET_WIDTH, height |-> TARGET_HEIGHT]
               /\ pc' = "save"
               /\ UNCHANGED exc
          ELSE /\ Raise(o)
               /\ UNCHANGED result
    /\ UNCHANGED <<req, image_data, crop_mode, img, orig, crop, info, responses>>

\* result.save(...) and the info dictionary
SaveInfo ==
    /\ pc = "save"
    /\ \E size \in 1..MaxFileSize :
          info' = [original_width |-> orig.width, original_height |-> orig.height,
                   crop_mode |-> InfoCropMode(crop_mode),
                   result_width |-> TARGET_WIDTH, result_height |-> TARGET_HEIGHT,
                   file_size |-> size]
    /\ pc' = "respond"
    /\ UNCHANGED <<req, image_data, crop_mode, img, orig, crop, result, exc, responses>>

(* ---------------- _handle_process: answering ---------------- *)
SendSuccess ==
    /\ pc = "respond"
    /\ Send(SuccessResponse(info))
    /\ UNCHANGED <<req, image_data, crop_mode, img, orig, crop, result, info, exc>>

\* except Exception as e: _send_json_error(..., 500)
HandleException ==
    /\ pc = "except"
    /\ Send(ErrorResponse(exc, 500))
    /\ UNCHANGED <<req, image_data, crop_mode, img, orig, crop, result, info, exc>>

Next ==
    \/ RouteProcess
    \/ RouteNotFound
    \/ ParseMultipart
    \/ ParseJson
    \/ InvalidContentType
    \/ OpenImage
    \/ ExifRotation
    \/ ConvertRGB
    \/ ComputeCrop
    \/ CropResize
    \/ SaveInfo
    \/ SendSuccess
    \/ HandleException

Spec == Init /\ [][Next]_vars

TypeOK ==
    /\ pc \in {"do_POST", "parse", "open", "exif", "rgb", "crop", "resize", "save",
               "respond", "except", "done"}
    /\ req \in Requests
    /\ Len(responses) <= 1

(* ---------------- properties ---------------- *)
Uploaded == req.path = "/api/process" /\ ~req.file.decodable
Answered == pc = "done" /\ Len(responses) = 1
Tall == crop.set /\ 16 * orig.width <= 9 * orig.height
Wide == crop.set /\ 16 * orig.width > 9 * orig.height

\* C1: for every source of width >= 1 and height >= 1 whose crop rectangle
\* is computed, the rectangle has crop_width >= 1 and crop_height >= 1, the
\* call ends without error and the answer reports a 1080x1920 result
C1_AlwaysTargetSize ==
    crop.set =>
        /\ crop.width >= 1
        /\ crop.height >= 1
        /\ exc = NoExc
        /\ pc = "done" =>
              /\ Len(responses) = 1
              /\ responses[1].success
              /\ result = [width |-> 1080, height |-> 1920]
              /\ responses[1].info.result_width = 1080
              /\ responses[1].info.result_height = 1920

\* C2 as stated, read on the sources whose crop rectangle has pixels: the
\* crop rectangle has exactly the ratio 9/16
C2_ExactRatio ==
    (crop.set /\ crop.width >= 1) => 16 * crop.width = 9 * crop.height

\* C2 amended: the crop rectangle has the ratio 9/16 up to the truncation of
\* one side: a wide source gives 0 <= 9*crop_height - 16*crop_width <= 15,
\* a tall or equal one 0 <= 16*crop_width - 9*crop_height <= 8, and the
\* ratio is exact only when the height is a multiple of 16 (wide) or the
\* width a multiple of 9 (tall or equal)
C2_RatioUpToTruncation ==
    /\ Wide =>
          /\ 9 * crop.height - 16 * crop.width \in 0..15
          /\ (16 * crop.width = 9 * crop.height) <=> (orig.height % 16 = 0)
    /\ Tall =>
          /\ 16 * crop.width - 9 * crop.height \in 0..8
          /\ (16 * crop.width = 9 * crop.height) <=> (orig.width % 9 = 0)

C2_Witness ==
    /\ crop.set
    /\ orig = [width |-> 1000, height |-> 2000]
    /\ crop.width = 1000
    /\ crop.height = 1777

\* C3: the crop_mode of the returned metadata is one of center, top, bottom,
\* and is center whenever the argument is neither top nor bottom (read on
\* the sources whose crop rectangle has pixels)
C3_ModeNormalized ==
    (info # NoInfo /\ crop.width >= 1) =>
        /\ info.crop_mode \in {"center", "top", "bottom"}
        /\ crop_mode \notin {"top", "bottom"} => info.crop_mode = "center"

\* C4: a source with 16*width <= 9*height is cropped to its full width and
\* to the height floor(16*width/9), at y = 0 for top, height - crop_height
\* for bottom and (height - crop_height) div 2 for every other mode;
\* 1000x2000 with bottom gives crop_height 1777 and crop_y 223
C4_TallCrop ==
    Tall =>
        /\ crop.x = 0
        /\ crop.width = orig.width
        /\ crop.height = (16 * orig.width) \div 9
        /\ crop_mode = "top" => crop.y = 0
        /\ crop_mode = "bottom" => crop.y = orig.height - crop.height
        /\ crop_mode \notin {"top", "bottom"} =>
              crop.y = (orig.height - crop.height) \div 2
        /\ (orig.width = 1000 /\ orig.height = 2000 /\ crop_mode = "bottom") =>
              (crop.height = 1777 /\ crop.y = 223)

C4_Witness ==
    /\ Tall
    /\ orig = [width |-> 1000, height |-> 2000]
    /\ crop_mode = "bottom"
    /\ crop.y = 223

\* C5: a source with 16*width > 9*height is cropped to its full height and
\* to the width floor(9*height/16), at y = 0 and x = (width - crop_width)
\* div 2, whatever the mode; 4000x3000 gives crop_width 1687 and crop_x 1156
C5_WideCrop ==
    Wide =>
        /\ crop.height = orig.height
        /\ crop.width = (9 * orig.height) \div 16
        /\ crop.y = 0
        /\ crop.x = (orig.width - crop.width) \div 2
        /\ (orig.width = 4000 /\ orig.height = 3000) =>
              (crop.width = 1687 /\ crop.x = 1156)

C5_Witness ==
    /\ Wide
    /\ orig = [width |-> 4000, height |-> 3000]
    /\ crop_mode = "bottom"
    /\ crop.x = 1156

\* C6: a source whose ratio is exactly 9/16 is cropped to the full image,
\* whatever the mode
C6_ExactRatioFullImage ==
    (crop.set /\ 16 * orig.width = 9 * orig.height) =>
        /\ crop.x = 0
        /\ crop.y = 0
        /\ crop.width = orig.width
        /\ crop.height = orig.height

C6_Witness ==
    /\ crop.set
    /\ orig = [width |-> 18, height |-> 32]
    /\ crop_mode = "bottom"
    /\ crop.height = 32

\* C7 as stated: the metadata's original_width and original_height are the
\* width and height of the raster as decoded, for every orientation tag
\* (read on the sources whose crop rectangle has pixels)
C7_OriginalIsDecoded ==
    (info # NoInfo /\ crop.width >= 1) =>
        /\ info.original_width = image_data.width
        /\ info.original_height = image_data.height

\* C7 amended: the metadata's original_width and original_height are the
\* width and height of the raster after the orientation correction: those of
\* the decoded raster when no tag is read or the tag is not 6 or 8, and the
\* decoded height and width, exchanged, when the tag is 6 or 8
C7_OriginalIsOriented ==
    info # NoInfo =>
        IF image_data.exif.kind = "dict" /\ image_data.exif.orientation \in {6, 8}
        THEN /\ info.original_width = image_data.height
             /\ info.original_height = image_data.width
        ELSE /\ info.original_width = image_data.width
             /\ info.original_height = image_data.height

C7_Witness ==
    /\ info # NoInfo
    /\ image_data.exif.orientation = 6
    /\ image_data.width = 3
    /\ image_data.height = 7
    /\ info.original_width = 7

\* C8: when the uploaded bytes are no image, a POST to /api/process never
\* sends a success, keeps running until it has answered, and ends with
\* exactly one JSON answer, an error with a status other than 200 and with
\* neither image nor info
C8_UndecodableOneError ==
    Uploaded =>
        /\ \A i \in 1..Len(responses) : ~responses[i].success
        /\ Len(responses) <= 1
        /\ pc # "done" => ENABLED Next
        /\ pc = "done" =>
              /\ Len(responses) = 1
              /\ responses[1].json
              /\ responses[1].status # 200
              /\ responses[1].error # "-"
              /\ ~responses[1].image
              /\ responses[1].info = NoInfo

C8_Witness ==
    /\ Uploaded
    /\ Answered
    /\ exc = "UnidentifiedImageError"
    /\ responses[1].status = 500

\* C9: no failure of the orientation read fails the call: once the image is
\* open, the exception of the read is never the one that ends process_image
C9_ExifErrorNeverFails ==
    (img # NoImg /\ image_data.exif.kind = "raise") => exc # image_data.exif.exc

\* C10: the crop rectangle lies inside the source raster
C10_CropInsideSource ==
    crop.set =>
        /\ 0 <= crop.x
        /\ 0 <= crop.y
        /\ crop.x + crop.width <= orig.width
        /\ crop.y + crop.height <= orig.height

C10_Witness ==
    /\ crop.set
    /\ crop.x > 0
    /\ crop.width > 0
    /\ crop.x + crop.width < orig.width
    /\ crop_mode = "left"

====
